---- MODULE Spec2Model ----
(***************************************************************************)
(* Silver -> Gold reconciliation engine of the World Happiness pipeline    *)
(* (src/src/feature_engineering/engineer_silver_data.py).                   *)
(*                                                                         *)
(* A column name is a sequence of one-character strings, so that           *)
(* _snake_normalise is computed character by character.  A table (a pandas *)
(* DataFrame) is a record [cols, rows]: cols is the sequence of column     *)
(* names (pandas allows a name to repeat), rows is a sequence of rows, and *)
(* a row is a sequence of cell values, one per column.                     *)
(***************************************************************************)
EXTENDS Integers, Sequences, FiniteSets, TLC

VARIABLES
    \* ---- SilverToGold.run: inputs, position and locals
    multi_df, y2021_df, geo_df, restrict, save_output,
    \* ---- outside the call: the module-level alias table, the tables as the
    \* caller holds them before its first call, the number of the call, and
    \* the outcome of the first call once a second has begun
    module_aliases, passed, calls, first_outcome,
    pc, found, multi_work, y2021_work, multi_aligned, y2021_aligned,
    appended, geo_harmonised, merged, gold_csv, error,
    \* ---- a call of _snake_normalise (and of it again on its result)
    raw_name, norm_once, norm_twice, npc,
    \* ---- calls of _apply_aliases and _intersect_and_align on two tables
    tab_a, tab_b, alias_once, alias_twice, alias_b, align_ab, align_ba, cpc,
    \* ---- a call of _find_col on the first of the two tables
    find_target, find_res,
    \* ---- a call of _build_normalised_map on the labels of both tables
    map_columns, built_map,
    \* ---- the dashboard's data holder: the module-level provider, the
    \* DataFrame objects in memory, the tables handed to pages, and the calls
    \* made so far
    DATA_PROVIDER, frames, page_frames, dash_log

run_vars == <<multi_df, y2021_df, geo_df, restrict, save_output, module_aliases,
              passed, calls, first_outcome, pc, found, multi_work, y2021_work,
              multi_aligned, y2021_aligned, appended, geo_harmonised, merged,
              gold_csv, error>>
norm_vars == <<raw_name, norm_once, norm_twice, npc>>
cols_vars == <<tab_a, tab_b, alias_once, alias_twice, alias_b, align_ab, align_ba,
               cpc, find_target, find_res, map_columns, built_map>>
dash_vars == <<DATA_PROVIDER, frames, page_frames, dash_log>>
vars == <<run_vars, norm_vars, cols_vars, dash_vars>>

-----------------------------------------------------------------------------
(* Bounds of the model *)

\* longest raw column name drawn for the normaliser
MaxNameLen == 4
\* most columns of a table drawn for the alias resolver and the aligner
MaxCols == 2
\* most rows of the panel (multi-year) table
MaxPanelRows == 2
\* most rows of the snapshot (2021) table
MaxSnapRows == 2
\* most rows of the geolocation table
MaxGeoRows == 2

-----------------------------------------------------------------------------
(* Characters *)

UpperChars == <<"A","B","C","D","E","F","G","H","I","J","K","L","M",
                "N","O","P","Q","R","S","T","U","V","W","X","Y","Z">>
LowerChars == <<"a","b","c","d","e","f","g","h","i","j","k","l","m",
                "n","o","p","q","r","s","t","u","v","w","x","y","z">>
DigitChars == <<"0","1","2","3","4","5","6","7","8","9">>

\* the characters of the model in code-point order (Python compares strings
\* by code point)
CodePointOrder == <<" ", "(", ")", "-", "/">> \o DigitChars \o UpperChars
                  \o <<"[", "]", "_">> \o LowerChars

Range(s) == {s[i] : i \in DOMAIN s}

\* str.strip() with no argument strips whitespace
IsSpace(c) == c = " "

\* the regular expression class \w: letters, digits and the underscore
WordChars == Range(UpperChars) \cup Range(LowerChars)
             \cup Range(DigitChars) \cup {"_"}

IsWord(c) == c \in WordChars

\* str.lower(), character by character
LowerOf ==
    [c \in Range(UpperChars) |->
        LowerChars[CHOOSE i \in DOMAIN UpperChars : UpperChars[i] = c]]

ToLower(c) == IF c \in DOMAIN LowerOf THEN LowerOf[c] ELSE c

\* the rank of each character in code-point order
CodeOf ==
    [c \in Range(CodePointOrder) |->
        CHOOSE i \in DOMAIN CodePointOrder : CodePointOrder[i] = c]

CharCode(c) == CodeOf[c]

SetMin(S) == CHOOSE x \in S : \A y \in S : x <= y
SetMax(S) == CHOOSE x \in S : \A y \in S : x >= y

-----------------------------------------------------------------------------
(* _snake_normalise *)

\* name.strip()
StripSpace(s) ==
    LET keep == {i \in DOMAIN s : ~IsSpace(s[i])}
    IN  IF keep = {} THEN <<>> ELSE SubSeq(s, SetMin(keep), SetMax(keep))

\* .lower()
LowerStr(s) == [i \in DOMAIN s |-> ToLower(s[i])]

\* re.sub(r"[^\w]+", "_", s): every maximal run of non-word characters
\* becomes one underscore
SubNonWord(s) ==
    LET f[i \in 0..Len(s)] ==
            IF i = 0 THEN <<>>
            ELSE IF IsWord(s[i]) THEN Append(f[i-1], s[i])
            ELSE IF i > 1 /\ ~IsWord(s[i-1]) THEN f[i-1]
            ELSE Append(f[i-1], "_")
    IN  f[Len(s)]

\* mutant of CollapseUnderscores: runs of underscores are left as they are
CollapseUnderscoresOff(s) == s

\* re.sub(r"_+", "_", s)
CollapseUnderscores(s) ==
    LET f[i \in 0..Len(s)] ==
            IF i = 0 THEN <<>>
            ELSE IF s[i] = "_" /\ i > 1 /\ s[i-1] = "_" THEN f[i-1]
            ELSE Append(f[i-1], s[i])
    IN  f[Len(s)]

\* .strip("_")
StripUnderscores(s) ==
    LET keep == {i \in DOMAIN s : s[i] # "_"}
    IN  IF keep = {} THEN <<>> ELSE SubSeq(s, SetMin(keep), SetMax(keep))

\* mutant of SnakeNormalise: the edge underscores stripped first, not last
SnakeNormaliseStripFirst(name) ==
    CollapseUnderscores(SubNonWord(LowerStr(StripSpace(StripUnderscores(name)))))

SnakeNormalise(name) ==
    StripUnderscores(CollapseUnderscores(SubNonWord(LowerStr(StripSpace(name)))))

-----------------------------------------------------------------------------
(* Sequences *)

\* all sequences over S of length at most n
SeqsUpTo(S, n) == UNION {[1..k -> S] : k \in 0..n}

\* Python's < on strings: lexicographic by code point
NameLess(a, b) ==
    \E i \in 1..(Len(a) + 1) :
        /\ i <= Len(b)
        /\ \A j \in 1..(i-1) : a[j] = b[j]
        /\ (i = Len(a) + 1 \/ CharCode(a[i]) < CharCode(b[i]))

\* sorted(S) for a set of names
RECURSIVE SortNames(_)
SortNames(S) ==
    IF S = {} THEN <<>>
    ELSE LET m == CHOOSE x \in S : \A y \in S : x = y \/ NameLess(x, y)
         IN  <<m>> \o SortNames(S \ {m})

-----------------------------------------------------------------------------
(* Column names used by the code and by the input tables of the model *)

\* "country_name"
N_country_name == <<"c","o","u","n","t","r","y","_","n","a","m","e">>
\* "year"
N_year == <<"y","e","a","r">>
\* "regional_indicator"
N_regional_indicator == <<"r","e","g","i","o","n","a","l","_","i","n","d","i","c","a","t","o","r">>
\* "ladder_score"
N_ladder_score == <<"l","a","d","d","e","r","_","s","c","o","r","e">>
\* "life_ladder"
N_life_ladder == <<"l","i","f","e","_","l","a","d","d","e","r">>
\* "log_gdp_per_capita"
N_log_gdp_per_capita == <<"l","o","g","_","g","d","p","_","p","e","r","_","c","a","p","i","t","a">>
\* "logged_gdp_per_capita"
N_logged_gdp_per_capita == <<"l","o","g","g","e","d","_","g","d","p","_","p","e","r","_","c","a","p","i","t","a">>
\* "healthy_life_expectancy_at_birth"
N_healthy_life_expectancy_at_birth == <<"h","e","a","l","t","h","y","_","l","i","f","e","_","e","x","p","e","c","t","a","n","c","y","_","a","t","_","b","i","r","t","h">>
\* "healthy_life_expectancy"
N_healthy_life_expectancy == <<"h","e","a","l","t","h","y","_","l","i","f","e","_","e","x","p","e","c","t","a","n","c","y">>
\* "latitude"
N_latitude == <<"l","a","t","i","t","u","d","e">>
\* "longitude"
N_longitude == <<"l","o","n","g","i","t","u","d","e">>
\* "country"
N_country == <<"c","o","u","n","t","r","y">>
\* "_x", "_y": pandas' default merge suffixes
Suffix_x == <<"_","x">>
Suffix_y == <<"_","y">>
\* "_geo"
Suffix_geo == <<"_","g","e","o">>
\* "Country name"
Raw_Country_name == <<"C","o","u","n","t","r","y"," ","n","a","m","e">>
\* "Life Ladder"
Raw_Life_Ladder == <<"L","i","f","e"," ","L","a","d","d","e","r">>
\* "Ladder score"
Raw_Ladder_score == <<"L","a","d","d","e","r"," ","s","c","o","r","e">>
\* "Regional indicator"
Raw_Regional_indicator == <<"R","e","g","i","o","n","a","l"," ","i","n","d","i","c","a","t","o","r">>

\* "_is_2021_row"
N_is_2021_row == <<"_","i","s","_","2","0","2","1","_","r","o","w">>

\* The column names above: their keys are computed once, by SnakeNormalise,
\* and looked up afterwards (a cache; any other name is normalised on the spot).
KnownNames ==
    { N_country_name, N_year, N_regional_indicator, N_ladder_score, N_life_ladder,
      N_log_gdp_per_capita, N_logged_gdp_per_capita,
      N_healthy_life_expectancy_at_birth, N_healthy_life_expectancy,
      N_latitude, N_longitude, N_country, N_is_2021_row,
      Raw_Country_name, Raw_Life_Ladder, Raw_Ladder_score, Raw_Regional_indicator }

KnownKeys == [n \in KnownNames |-> SnakeNormalise(n)]

NormalisedKey(name) ==
    IF name \in KnownNames THEN KnownKeys[name] ELSE SnakeNormalise(name)

-----------------------------------------------------------------------------
(* _build_normalised_map *)

\* mutant of BuildNormalisedMap: a later name with the same key replaces the
\* earlier one
BuildNormalisedMapLastWins(columns) ==
    LET f[i \in 0..Len(columns)] ==
            IF i = 0 THEN <<>>
            ELSE LET key == NormalisedKey(columns[i])
                     mapping == f[i-1]
                 IN  (key :> columns[i]) @@ mapping
    IN  f[Len(columns)]

\* The dict built by the loop: a function from normalised key to the raw
\* name kept for it.
BuildNormalisedMap(columns) ==
    LET f[i \in 0..Len(columns)] ==
            IF i = 0 THEN <<>>
            ELSE LET key == NormalisedKey(columns[i])
                     mapping == f[i-1]
                 IN  IF key \in DOMAIN mapping THEN mapping
                     ELSE mapping @@ (key :> columns[i])
    IN  f[Len(columns)]

-----------------------------------------------------------------------------
(* Tables (pandas DataFrames) and the pandas operations the code calls *)

Table(cols, rows) == [cols |-> cols, rows |-> rows]

\* the value a local holds before it is assigned
NoTable == Table(<<>>, <<>>)

\* NaN / None in a cell
Null == "NaN"

\* positions of the columns labelled name
ColPositions(df, name) == {i \in DOMAIN df.cols : df.cols[i] = name}

\* position of a column whose label occurs once
ColPos(df, name) == SetMin(ColPositions(df, name))

HasCol(df, name) == ColPositions(df, name) # {}

\* an increasing sequence of the members of a finite set of integers
RECURSIVE SeqOfSet(_)
SeqOfSet(S) ==
    IF S = {} THEN <<>>
    ELSE <<SetMin(S)>> \o SeqOfSet(S \ {SetMin(S)})

\* concatenation of a sequence of sequences
RECURSIVE Flatten(_)
Flatten(ss) ==
    IF ss = <<>> THEN <<>> ELSE Head(ss) \o Flatten(Tail(ss))

\* the table restricted to the columns at positions pos, in that order
TakePositions(df, pos) ==
    Table([i \in DOMAIN pos |-> df.cols[pos[i]]],
          [r \in DOMAIN df.rows |-> [i \in DOMAIN pos |-> df.rows[r][pos[i]]]])

\* df.loc[:, names] and df[names]: for each requested label, every column
\* that carries it (a repeated label selects all its columns)
SelectCols(df, names) ==
    TakePositions(df,
        Flatten([i \in DOMAIN names |-> SeqOfSet(ColPositions(df, names[i]))]))

\* df.rename(columns=ren): every column whose label is a key of ren
RenameCols(df, ren) ==
    [df EXCEPT !.cols = [i \in DOMAIN df.cols |->
        IF df.cols[i] \in DOMAIN ren THEN ren[df.cols[i]] ELSE df.cols[i]]]

\* df.drop(columns=name)
DropCols(df, name) ==
    TakePositions(df, SeqOfSet(DOMAIN df.cols \ ColPositions(df, name)))

\* the rows at the positions of the set keep, in their order
KeepRows(df, keep) ==
    LET pos == SeqOfSet(keep)
    IN  [df EXCEPT !.rows = [i \in DOMAIN pos |-> df.rows[pos[i]]]]

\* Series.astype(str) on one cell
AsStr(v) == IF v = Null THEN "nan" ELSE v

-----------------------------------------------------------------------------
(* Alias Resolver *)

ALIASES ==
    (N_life_ladder :> N_ladder_score)
    @@ (N_log_gdp_per_capita :> N_logged_gdp_per_capita)
    @@ (N_healthy_life_expectancy_at_birth :> N_healthy_life_expectancy)

\* mutant of ApplyAliases: every column is renamed, to its alias target or
\* else to its normalised key
ApplyAliasesCanonicalising(df, aliases) ==
    [df EXCEPT !.cols = [i \in DOMAIN df.cols |->
        LET key == NormalisedKey(df.cols[i])
        IN  IF key \in DOMAIN aliases THEN aliases[key] ELSE key]]

ApplyAliases(df, aliases) ==
    LET norm_to_orig == BuildNormalisedMap(df.cols)
        hit == {k \in DOMAIN norm_to_orig :
                    k \in DOMAIN aliases /\ aliases[k] # norm_to_orig[k]}
        rename_dict == [o \in {norm_to_orig[k] : k \in hit} |->
                           aliases[CHOOSE k \in hit : norm_to_orig[k] = o]]
    IN  IF hit # {} THEN RenameCols(df, rename_dict) ELSE df

-----------------------------------------------------------------------------
(* Column Aligner *)

\* mutant of Pretty: the raw name is kept
PrettyKeepsRaw(orig) == orig

\* _pretty
Pretty(orig) ==
    LET snake == NormalisedKey(orig)
    IN  IF orig = snake THEN orig ELSE snake

\* The outcome of _intersect_and_align(a, b): kind "ok" with the two aligned
\* tables, or the error raised.  Assigning a column list of another length
\* to a DataFrame raises pandas' ValueError "Length mismatch".
IntersectAndAlign(a, b) ==
    LET a_map == BuildNormalisedMap(a.cols)
        b_map == BuildNormalisedMap(b.cols)
        shared_keys == SortNames(DOMAIN a_map \cap DOMAIN b_map)
        out_cols == [i \in DOMAIN shared_keys |-> Pretty(a_map[shared_keys[i]])]
        a_sel == SelectCols(a, [i \in DOMAIN shared_keys |-> a_map[shared_keys[i]]])
        b_sel == SelectCols(b, [i \in DOMAIN shared_keys |-> b_map[shared_keys[i]]])
    IN  IF shared_keys = <<>>
        THEN [kind |-> "ValueError: No shared columns", a |-> NoTable, b |-> NoTable]
        ELSE IF Len(a_sel.cols) # Len(out_cols) \/ Len(b_sel.cols) # Len(out_cols)
        THEN [kind |-> "ValueError: Length mismatch", a |-> NoTable, b |-> NoTable]
        ELSE [kind |-> "ok",
              a |-> [a_sel EXCEPT !.cols = out_cols],
              b |-> [b_sel EXCEPT !.cols = out_cols]]

-----------------------------------------------------------------------------
(* More pandas operations: ordering, duplicates, joins *)

\* The country names of the model in code-point order, which is the order
\* sort_values gives a column of Python strings.
StrOrder == <<"Congo (Brazzaville)", "Congo [Republic]", "Wonderland">>

StrRank(v) == CHOOSE i \in DOMAIN StrOrder : StrOrder[i] = v

\* < on two cells of one column: strings by code point, numbers by value
CellLess(u, v, text) == IF text THEN StrRank(u) < StrRank(v) ELSE u < v

\* row r sorts strictly before row q on the columns at positions by; text
\* is the set of those positions whose column holds strings
RowLess(r, q, by, text) ==
    \E i \in DOMAIN by :
        /\ \A j \in 1..(i-1) : r[by[j]] = q[by[j]]
        /\ CellLess(r[by[i]], q[by[i]], by[i] \in text)

SameOn(r, q, by) == \A i \in DOMAIN by : r[by[i]] = q[by[i]]

\* mutant of SortValues: rows that tie come out in reverse order
SortValuesTiesReversed(df, by, text) ==
    LET n == Len(df.rows)
        Before(j, i) == \/ RowLess(df.rows[j], df.rows[i], by, text)
                        \/ (SameOn(df.rows[j], df.rows[i], by) /\ j > i)
        rank(i) == 1 + Cardinality({j \in 1..n : Before(j, i)})
    IN  [df EXCEPT !.rows =
            [p \in 1..n |-> df.rows[CHOOSE i \in 1..n : rank(i) = p]]]

\* mutant of SortValues: rows that tie keep their order in a first call of
\* run and come out in reverse order in a later one
SortValuesTiesByCall(df, by, text) ==
    LET n == Len(df.rows)
        Before(j, i) == \/ RowLess(df.rows[j], df.rows[i], by, text)
                        \/ (/\ SameOn(df.rows[j], df.rows[i], by)
                            /\ IF calls = 2 THEN j > i ELSE j < i)
        rank(i) == 1 + Cardinality({j \in 1..n : Before(j, i)})
    IN  [df EXCEPT !.rows =
            [p \in 1..n |-> df.rows[CHOOSE i \in 1..n : rank(i) = p]]]

\* df.sort_values([...]) on several columns: a stable sort, rows that tie
\* keep their order
SortValues(df, by, text) ==
    LET n == Len(df.rows)
        Before(j, i) == \/ RowLess(df.rows[j], df.rows[i], by, text)
                        \/ (SameOn(df.rows[j], df.rows[i], by) /\ j < i)
        rank(i) == 1 + Cardinality({j \in 1..n : Before(j, i)})
    IN  [df EXCEPT !.rows =
            [p \in 1..n |-> df.rows[CHOOSE i \in 1..n : rank(i) = p]]]

\* mutants of DropDuplicatesLast: keep="first", and duplicates judged on the
\* first column of the subset alone
DropDuplicatesKeepFirst(df, by) ==
    KeepRows(df, {i \in DOMAIN df.rows :
        ~\E j \in DOMAIN df.rows : j < i /\ SameOn(df.rows[j], df.rows[i], by)})

DropDuplicatesOnFirstColumn(df, by) ==
    KeepRows(df, {i \in DOMAIN df.rows :
        ~\E j \in DOMAIN df.rows : j > i /\ SameOn(df.rows[j], df.rows[i], <<by[1]>>)})

\* df.drop_duplicates(subset, keep="last")
DropDuplicatesLast(df, by) ==
    KeepRows(df, {i \in DOMAIN df.rows :
        ~\E j \in DOMAIN df.rows : j > i /\ SameOn(df.rows[j], df.rows[i], by)})

\* df.drop_duplicates(): all columns, keep="first"
DropDuplicatesFirst(df) ==
    KeepRows(df, {i \in DOMAIN df.rows :
        ~\E j \in DOMAIN df.rows : j < i /\ df.rows[j] = df.rows[i]})

\* pd.concat([a, b], ignore_index=True) of two tables with the same columns
Concat(a, b) == Table(a.cols, a.rows \o b.rows)

\* df[name] = values
WithColumn(df, name, values) ==
    Table(Append(df.cols, name),
          [i \in DOMAIN df.rows |-> Append(df.rows[i], values[i])])

\* left.merge(right, on=on, how=how, suffixes=(lsuf, rsuf)) for how "left"
\* or "inner": the left rows in their order, each followed by the cells of
\* every right row with the same key (in the right table's order); a left
\* row with no such right row is kept with nulls by "left" and left out by
\* "inner"; a label the two tables share, other than the key, gets the
\* suffixes.
Merge(left, right, on, how, lsuf, rsuf) ==
    LET overlap == (Range(left.cols) \cap Range(right.cols)) \ {on}
        lcols == [i \in DOMAIN left.cols |->
                    IF left.cols[i] \in overlap THEN left.cols[i] \o lsuf
                    ELSE left.cols[i]]
        rpos == SeqOfSet(DOMAIN right.cols \ ColPositions(right, on))
        rcols == [i \in DOMAIN rpos |->
                    IF right.cols[rpos[i]] \in overlap
                    THEN right.cols[rpos[i]] \o rsuf
                    ELSE right.cols[rpos[i]]]
        lk == ColPos(left, on)
        rk == ColPos(right, on)
        RightCells(j) == [i \in DOMAIN rpos |-> right.rows[j][rpos[i]]]
        Nulls == [i \in DOMAIN rpos |-> Null]
        Joined(r) ==
            LET m == SeqOfSet({j \in DOMAIN right.rows : right.rows[j][rk] = r[lk]})
            IN  IF m # <<>> THEN [x \in DOMAIN m |-> r \o RightCells(m[x])]
                ELSE IF how = "left" THEN << r \o Nulls >>
                ELSE <<>>
    IN  Table(lcols \o rcols,
              Flatten([i \in DOMAIN left.rows |-> Joined(left.rows[i])]))

\* Series.replace(mapping) on the column at position p
ReplaceValues(df, p, mapping) ==
    [df EXCEPT !.rows = [i \in DOMAIN df.rows |->
        [df.rows[i] EXCEPT ![p] = IF @ \in DOMAIN mapping THEN mapping[@] ELSE @]]]

-----------------------------------------------------------------------------
(* SilverToGold.run, step by step *)

NoError == [kind |-> "none", key |-> <<>>]

NoCols == [multi_country |-> <<>>, multi_year |-> <<>>, y21_country |-> <<>>,
           y21_year |-> <<>>, geo_country |-> <<>>, y21_region |-> <<>>]

\* mutant of FindCol: an absent column is reported under the target's name
FindColLenient(df, target_norm) ==
    LET norm_map == BuildNormalisedMap(df.cols)
    IN  [ok |-> TRUE,
         col |-> IF target_norm \in DOMAIN norm_map THEN norm_map[target_norm]
                 ELSE target_norm,
         error |-> NoError]

\* mutant of FindCol: the last column that normalises to the target
FindColLast(df, target_norm) ==
    LET hits == {i \in DOMAIN df.cols : NormalisedKey(df.cols[i]) = target_norm}
    IN  IF hits # {}
        THEN [ok |-> TRUE, col |-> df.cols[SetMax(hits)], error |-> NoError]
        ELSE [ok |-> FALSE, col |-> <<>>,
              error |-> [kind |-> "KeyError", key |-> target_norm]]

\* _find_col: the raw name kept for the target key, or the KeyError, whose
\* message quotes the target key
FindCol(df, target_norm) ==
    LET norm_map == BuildNormalisedMap(df.cols)
        hits == {n \in DOMAIN norm_map : n = target_norm}
    IN  IF hits # {}
        THEN [ok |-> TRUE, col |-> norm_map[CHOOSE n \in hits : TRUE],
              error |-> NoError]
        ELSE [ok |-> FALSE, col |-> <<>>,
              error |-> [kind |-> "KeyError", key |-> target_norm]]

\* Step 1: the six lookups in the order the code makes them
KeyLookups(multi, y21, geo) ==
    << [df |-> multi, key |-> N_country_name],
       [df |-> multi, key |-> N_year],
       [df |-> y21,   key |-> N_country_name],
       [df |-> y21,   key |-> N_year],
       [df |-> geo,   key |-> N_country_name],
       [df |-> y21,   key |-> N_regional_indicator] >>

\* mutant of RestrictToSnapshotCountries: no row is filtered out
RestrictKeepsAll(multi, y21, multi_country, y21_country) == multi

\* Step 2: multi_work[multi_work[multi_country].astype(str).isin(valid)]
RestrictToSnapshotCountries(multi, y21, multi_country, y21_country) ==
    LET yc == ColPos(y21, y21_country)
        mc == ColPos(multi, multi_country)
        valid == {AsStr(y21.rows[i][yc]) : i \in DOMAIN y21.rows}
    IN  KeepRows(multi, {i \in DOMAIN multi.rows : AsStr(multi.rows[i][mc]) \in valid})

\* Step 3: the country -> region lookup built from the snapshot
CountryRegion(y21, y21_country, y21_region, multi_country) ==
    RenameCols(DropDuplicatesFirst(SelectCols(y21, <<y21_country, y21_region>>)),
               (y21_country :> multi_country) @@ (y21_region :> N_regional_indicator))

\* Step 3: drop an own region column (under the code's condition), then
\* left-join the lookup
InjectRegion(multi, country_region, multi_country) ==
    LET base == IF HasCol(multi, N_regional_indicator) /\ multi_country # N_country_name
                THEN DropCols(multi, N_regional_indicator)
                ELSE multi
    IN  Merge(base, country_region, multi_country, "left", Suffix_x, Suffix_y)

\* mutant of AppendWithPrecedence: a field-level merge.  A snapshot row whose
\* key the panel has takes every other cell from the panel's last row of
\* that key.
AppendFieldwise(multi_al, y2021_al) ==
    LET ci == ColPos(multi_al, N_country_name)
        yi == ColPos(multi_al, N_year)
        Key(r) == <<r[ci], r[yi]>>
        PanelRows(k) == {i \in DOMAIN multi_al.rows : Key(multi_al.rows[i]) = k}
        Mixed(r) ==
            IF PanelRows(Key(r)) = {} THEN r
            ELSE [c \in DOMAIN r |->
                    IF c % 2 = 1 THEN multi_al.rows[SetMax(PanelRows(Key(r)))][c]
                    ELSE r[c]]
        snap_keys == {Key(y2021_al.rows[i]) : i \in DOMAIN y2021_al.rows}
        panel_only == KeepRows(multi_al, {i \in DOMAIN multi_al.rows :
                                             Key(multi_al.rows[i]) \notin snap_keys})
    IN  Table(multi_al.cols,
              panel_only.rows \o [i \in DOMAIN y2021_al.rows |-> Mixed(y2021_al.rows[i])])

\* Step 6: the union of the two tables with the helper flag: 1 on every row
\* whose (country_name, year) is a key of the snapshot
FlaggedUnion(multi_al, y2021_al) ==
    LET union == Concat(multi_al, y2021_al)
        ci == ColPos(union, N_country_name)
        yi == ColPos(union, N_year)
        y2021_keys == {<<AsStr(y2021_al.rows[i][ci]), y2021_al.rows[i][yi]>> :
                          i \in DOMAIN y2021_al.rows}
        flags == [i \in DOMAIN union.rows |->
                    IF <<AsStr(union.rows[i][ci]), union.rows[i][yi]>> \in y2021_keys
                    THEN 1 ELSE 0]
    IN  WithColumn(union, N_is_2021_row, flags)

\* Step 6: union.sort_values(["country_name", "year", "_is_2021_row"])
SortedUnion(multi_al, y2021_al) ==
    LET flagged == FlaggedUnion(multi_al, y2021_al)
    IN  SortValues(flagged,
                   <<ColPos(flagged, N_country_name), ColPos(flagged, N_year),
                     ColPos(flagged, N_is_2021_row)>>,
                   {ColPos(flagged, N_country_name)})

\* Step 6: union, flag, sort, keep the last row of every key
AppendWithPrecedence(multi_al, y2021_al) ==
    LET sorted == SortedUnion(multi_al, y2021_al)
    IN  DropCols(DropDuplicatesLast(sorted,
                     <<ColPos(sorted, N_country_name), ColPos(sorted, N_year)>>),
                 N_is_2021_row)

\* Step 7: geo country labels -> happiness labels
geo_to_happy ==
    ("Congo [Republic]" :> "Congo (Brazzaville)")
    @@ ("Congo [DRC]" :> "Congo (Brazzaville)")
    @@ ("Hong Kong" :> "Hong Kong S.A.R. of China")
    @@ ("Côte d'Ivoire" :> "Ivory Coast")
    @@ ("Myanmar [Burma]" :> "Myanmar")
    @@ ("Cyprus" :> "North Cyprus")
    @@ ("Macedonia [FYROM]" :> "North Macedonia")
    @@ ("Taiwan" :> "Taiwan Province of China")

\* Step 7: the harmonised copy of the geolocation table
HarmoniseGeo(geo, geo_country) ==
    LET renamed == RenameCols(geo, geo_country :> N_country_name)
    IN  IF HasCol(renamed, N_country_name)
        THEN ReplaceValues(renamed, ColPos(renamed, N_country_name), geo_to_happy)
        ELSE renamed

\* mutant of GeoHarmonisedObject: geo_harmonised is geo_df itself
GeoHarmonisedIsGeoDf == "geo_df"

\* The object that step 7 writes its replaced column into: geo_harmonised,
\* which is geo_df.rename(...).copy(), an object of its own.
GeoHarmonisedObject == "own"

\* what the object called name holds after an in-place write of written into
\* the object target
AfterWrite(name, held, target, written) == IF target = name THEN written ELSE held

\* Step 8: the table the merge joins: geo_df with its country column renamed
GeoRenamed(geo, geo_country) == RenameCols(geo, geo_country :> N_country_name)

\* mutant of MergeGeo: how="inner"
MergeGeoInner(app, geo, geo_country) ==
    Merge(app, GeoRenamed(geo, geo_country), N_country_name, "inner", <<>>, Suffix_geo)

\* Step 8: appended.merge(geo_renamed, on="country_name", how="left",
\* suffixes=("", "_geo"))
MergeGeo(app, geo, geo_country) ==
    Merge(app, GeoRenamed(geo, geo_country), N_country_name, "left", <<>>, Suffix_geo)

-----------------------------------------------------------------------------
(* Values of the variables of a part of the module that is not running *)

\* the value of a local before _find_col has been called
NoFind == [ok |-> FALSE, col |-> <<>>, error |-> NoError]

\* the value of a local before _intersect_and_align has been called
NoAlignment == [kind |-> "not called", a |-> NoTable, b |-> NoTable]

\* the outcome of a call that has not ended
NoOutcome == [pc |-> "none", merged |-> NoTable, error |-> NoError]

RunIdle ==
    /\ multi_df = NoTable /\ y2021_df = NoTable /\ geo_df = NoTable
    /\ restrict = FALSE /\ save_output = FALSE
    /\ module_aliases = ALIASES /\ passed = <<NoTable, NoTable, NoTable>>
    /\ calls = 0 /\ first_outcome = NoOutcome
    /\ pc = "idle" /\ found = NoCols
    /\ multi_work = NoTable /\ y2021_work = NoTable
    /\ multi_aligned = NoTable /\ y2021_aligned = NoTable
    /\ appended = NoTable /\ geo_harmonised = NoTable /\ merged = NoTable
    /\ gold_csv = NoTable /\ error = NoError

\* a provider value: what _DATA_PROVIDER holds, or what a setter is given
Provider(kind, frame) == [kind |-> kind, frame |-> frame]

\* None where a DataFrame object is expected
NoFrame == 0

\* _DATA_PROVIDER = None
NoProvider == Provider("None", NoFrame)

DashIdle ==
    /\ DATA_PROVIDER = NoProvider /\ frames = <<>> /\ page_frames = <<>>
    /\ dash_log = <<[op |-> "idle", provider |-> NoProvider, frame |-> NoFrame,
                     outcome |-> "none"]>>

NormIdle ==
    /\ raw_name = <<>> /\ norm_once = <<>> /\ norm_twice = <<>> /\ npc = "idle"

ColsIdle ==
    /\ tab_a = NoTable /\ tab_b = NoTable
    /\ alias_once = NoTable /\ alias_twice = NoTable /\ alias_b = NoTable
    /\ align_ab = NoAlignment /\ align_ba = NoAlignment /\ cpc = "idle"
    /\ find_target = <<>> /\ find_res = NoFind
    /\ map_columns = <<>> /\ built_map = <<>>

-----------------------------------------------------------------------------
(* SpecNorm: _snake_normalise applied to a raw name, then to its result *)

\* one lowercase letter, one uppercase letter, a digit, the underscore,
\* whitespace and a punctuation mark
NormChars == {"a", "B", "1", "_", " ", "-"}

RawNames == SeqsUpTo(NormChars, MaxNameLen)

InitNorm ==
    /\ raw_name \in RawNames
    /\ norm_once = <<>> /\ norm_twice = <<>> /\ npc = "raw"
    /\ RunIdle /\ ColsIdle /\ DashIdle

NormaliseName ==
    /\ npc = "raw"
    /\ norm_once' = SnakeNormalise(raw_name)
    /\ npc' = "once"
    /\ UNCHANGED <<raw_name, norm_twice, run_vars, cols_vars, dash_vars>>

NormaliseAgain ==
    /\ npc = "once"
    /\ norm_twice' = SnakeNormalise(norm_once)
    /\ npc' = "twice"
    /\ UNCHANGED <<raw_name, norm_once, run_vars, cols_vars, dash_vars>>

NextNorm == NormaliseName \/ NormaliseAgain

SpecNorm == InitNorm /\ [][NextNorm]_vars

-----------------------------------------------------------------------------
(* SpecCols: the Alias Resolver and the Column Aligner on two tables, as   *)
(* run uses them: the aligner receives the two tables after alias          *)
(* resolution.                                                             *)

\* two spellings of an alias source key, two spellings of its canonical
\* target, and another column
ColNamePool == {Raw_Life_Ladder, N_life_ladder, N_ladder_score, Raw_Ladder_score, N_year}

\* A raw table, as read from a CSV file, repeats no column label.  The table
\* has one row, whose cells name the positions of its columns.
ColTables ==
    {Table(cols, << [i \in DOMAIN cols |-> i] >>) :
        cols \in {c \in SeqsUpTo(ColNamePool, MaxCols) :
                     \A i, j \in DOMAIN c : c[i] = c[j] => i = j}}

InitCols ==
    /\ tab_a \in ColTables /\ tab_b \in ColTables
    /\ alias_once = NoTable /\ alias_twice = NoTable /\ alias_b = NoTable
    /\ align_ab = NoAlignment /\ align_ba = NoAlignment /\ cpc = "start"
    /\ find_target = <<>> /\ find_res = NoFind
    /\ map_columns = <<>> /\ built_map = <<>>
    /\ RunIdle /\ NormIdle /\ DashIdle

AliasA ==
    /\ cpc = "start"
    /\ alias_once' = ApplyAliases(tab_a, module_aliases)
    /\ cpc' = "aliased_a"
    /\ UNCHANGED <<tab_a, tab_b, alias_twice, alias_b, align_ab, align_ba,
                   find_target, find_res, map_columns, built_map, run_vars,
                   norm_vars, dash_vars>>

AliasAAgain ==
    /\ cpc = "aliased_a"
    /\ alias_twice' = ApplyAliases(alias_once, module_aliases)
    /\ cpc' = "aliased_twice"
    /\ UNCHANGED <<tab_a, tab_b, alias_once, alias_b, align_ab, align_ba,
                   find_target, find_res, map_columns, built_map, run_vars,
                   norm_vars, dash_vars>>

AliasB ==
    /\ cpc = "aliased_twice"
    /\ alias_b' = ApplyAliases(tab_b, module_aliases)
    /\ cpc' = "aliased_b"
    /\ UNCHANGED <<tab_a, tab_b, alias_once, alias_twice, align_ab, align_ba,
                   find_target, find_res, map_columns, built_map, run_vars,
                   norm_vars, dash_vars>>

AlignAB ==
    /\ cpc = "aliased_b"
    /\ align_ab' = IntersectAndAlign(alias_once, alias_b)
    /\ cpc' = "aligned_ab"
    /\ UNCHANGED <<tab_a, tab_b, alias_once, alias_twice, alias_b, align_ba,
                   find_target, find_res, map_columns, built_map, run_vars,
                   norm_vars, dash_vars>>

AlignBA ==
    /\ cpc = "aligned_ab"
    /\ align_ba' = IntersectAndAlign(alias_b, alias_once)
    /\ cpc' = "done"
    /\ UNCHANGED <<tab_a, tab_b, alias_once, alias_twice, alias_b, align_ab,
                   find_target, find_res, map_columns, built_map, run_vars,
                   norm_vars, dash_vars>>

\* the keys looked up: keys that columns of the pool normalise to, and the
\* key of run's first lookup, which no column of the pool has
FindTargets == {N_ladder_score, N_life_ladder, N_year, N_country_name}

FindColumn ==
    /\ cpc = "done"
    /\ \E target \in FindTargets :
          /\ find_target' = target
          /\ find_res' = FindCol(tab_a, target)
    /\ cpc' = "found"
    /\ UNCHANGED <<tab_a, tab_b, alias_once, alias_twice, alias_b, align_ab, align_ba,
                   map_columns, built_map, run_vars, norm_vars, dash_vars>>

\* _build_normalised_map on an ordered collection of raw names: the labels of
\* the first table followed by those of the second, so a name may repeat and
\* two spellings of one key may come in either order
BuildMap ==
    /\ cpc = "found"
    /\ map_columns' = tab_a.cols \o tab_b.cols
    /\ built_map' = BuildNormalisedMap(tab_a.cols \o tab_b.cols)
    /\ cpc' = "mapped"
    /\ UNCHANGED <<tab_a, tab_b, alias_once, alias_twice, alias_b, align_ab, align_ba,
                   find_target, find_res, run_vars, norm_vars, dash_vars>>

NextCols ==
    AliasA \/ AliasAAgain \/ AliasB \/ AlignAB \/ AlignBA \/ FindColumn \/ BuildMap

SpecCols == InitCols /\ [][NextCols]_vars

-----------------------------------------------------------------------------
(* Spec: SilverToGold.run on bounded input tables *)

\* the geolocation source's spellings: one that the rename dictionary
\* translates, one that needs no translation
GeoNames == {"Congo [Republic]", "Wonderland"}

\* the year clean_y2021 gives every snapshot row
SnapshotYear == 2021

\* Cells the code never compares (indicator values, coordinates) name the
\* input row they come from.
PanelScores == <<"5.1", "5.2", "5.3", "5.4">>
SnapScores == <<"7.1", "7.2", "7.3", "7.4">>
Latitudes == <<"-4.1", "-4.2", "-4.3", "-4.4">>
Longitudes == <<"15.1", "15.2", "15.3", "15.4">>

\* a column of a layout: its label and what its cells hold
Col(name, role) == [name |-> name, role |-> role]

PanelCell(role, i, k) ==
    CASE role = "country" -> k.country
      [] role = "year" -> k.year
      [] role = "score" -> PanelScores[i]
      [] role = "region" -> "Old region"

SnapCell(role, i, k) ==
    CASE role = "country" -> k.country
      [] role = "year" -> SnapshotYear
      [] role = "score" -> SnapScores[i]
      [] role = "region" -> k.region

GeoCell(role, i, k) ==
    CASE role = "country" -> k
      [] role = "latitude" -> Latitudes[i]
      [] role = "longitude" -> Longitudes[i]

\* the cell of a column with the given role, in row i, of the named table
Cell(kind, role, i, k) ==
    CASE kind = "panel" -> PanelCell(role, i, k)
      [] kind = "snapshot" -> SnapCell(role, i, k)
      [] kind = "geo" -> GeoCell(role, i, k)

\* the table with the layout's columns and one row per key
MakeTable(layout, keys, kind) ==
    Table([c \in DOMAIN layout |-> layout[c].name],
          [i \in DOMAIN keys |->
              [c \in DOMAIN layout |-> Cell(kind, layout[c].role, i, keys[i])]])

PanelLayout ==
    << Col(Raw_Country_name, "country"), Col(N_year, "year"),
       Col(Raw_Life_Ladder, "score") >>

SnapLayout ==
    << Col(Raw_Country_name, "country"), Col(N_year, "year"),
       Col(Raw_Regional_indicator, "region"), Col(Raw_Ladder_score, "score") >>

GeoLayout ==
    << Col(N_country_name, "country"), Col(N_latitude, "latitude"),
       Col(N_longitude, "longitude") >>

\* other column layouts: snake-case spellings, a panel with both spellings
\* of the ladder column, a panel with a region column of its own, and
\* tables that lack a required column
PanelLayouts ==
    { PanelLayout,
      << Col(N_country_name, "country"), Col(N_year, "year"),
         Col(N_life_ladder, "score") >>,
      << Col(N_country_name, "country"), Col(N_year, "year"),
         Col(N_life_ladder, "score"), Col(N_ladder_score, "score") >>,
      << Col(N_country_name, "country"), Col(N_year, "year"),
         Col(N_ladder_score, "score"), Col(N_regional_indicator, "region") >>,
      << Col(Raw_Country_name, "country"), Col(N_year, "year"),
         Col(Raw_Life_Ladder, "score"), Col(N_regional_indicator, "region") >>,
      << Col(N_country_name, "country"), Col(N_life_ladder, "score") >>,
      << Col(N_year, "year"), Col(N_life_ladder, "score") >> }

SnapLayouts ==
    { SnapLayout,
      << Col(N_country_name, "country"), Col(N_year, "year"),
         Col(N_regional_indicator, "region"), Col(N_ladder_score, "score") >>,
      << Col(N_country_name, "country"), Col(N_year, "year"),
         Col(N_ladder_score, "score") >>,
      << Col(N_country_name, "country"),
         Col(N_regional_indicator, "region"), Col(N_ladder_score, "score") >>,
      << Col(N_year, "year"),
         Col(N_regional_indicator, "region"), Col(N_ladder_score, "score") >> }

GeoLayouts ==
    { GeoLayout,
      << Col(N_country, "country"), Col(N_latitude, "latitude"),
         Col(N_longitude, "longitude") >>,
      << Col(N_latitude, "latitude"), Col(N_longitude, "longitude") >> }

\* panel rows: a country in an earlier year and in the snapshot's year, and
\* another country in the snapshot's year
PanelKeys ==
    { [country |-> "Wonderland", year |-> 2020],
      [country |-> "Wonderland", year |-> 2021],
      [country |-> "Congo (Brazzaville)", year |-> 2021] }

\* snapshot rows: two countries, one of them under either of two regions
SnapKeys ==
    { [country |-> "Wonderland", region |-> "Fictional"],
      [country |-> "Wonderland", region |-> "Africa"],
      [country |-> "Congo (Brazzaville)", region |-> "Africa"] }

\* every content of the three tables within the bounds, in the usual layouts
DataInputs ==
    { [multi |-> MakeTable(PanelLayout, pk, "panel"),
       y2021 |-> MakeTable(SnapLayout, sk, "snapshot"),
       geo   |-> MakeTable(GeoLayout, gk, "geo")] :
         pk \in SeqsUpTo(PanelKeys, MaxPanelRows),
         sk \in SeqsUpTo(SnapKeys, MaxSnapRows),
         gk \in SeqsUpTo(GeoNames, MaxGeoRows) }

\* every combination of layouts, on one content
LayoutInputs ==
    { [multi |-> MakeTable(pl, << [country |-> "Wonderland", year |-> 2021],
                                  [country |-> "Congo (Brazzaville)", year |-> 2021] >>,
                           "panel"),
       y2021 |-> MakeTable(sl, << [country |-> "Wonderland", region |-> "Fictional"] >>,
                           "snapshot"),
       geo   |-> MakeTable(gl, << "Wonderland" >>, "geo")] :
         pl \in PanelLayouts, sl \in SnapLayouts, gl \in GeoLayouts }

Inputs == DataInputs \cup LayoutInputs

\* the locals of run when a call begins
LocalsUnset ==
    /\ pc = "start" /\ found = NoCols
    /\ multi_work = NoTable /\ y2021_work = NoTable
    /\ multi_aligned = NoTable /\ y2021_aligned = NoTable
    /\ appended = NoTable /\ geo_harmonised = NoTable /\ merged = NoTable
    /\ error = NoError

\* the first call of run by a caller that holds the tables in, with no gold
\* CSV on disk
FirstCall(in) ==
    /\ multi_df = in.multi /\ y2021_df = in.y2021 /\ geo_df = in.geo
    /\ passed = <<in.multi, in.y2021, in.geo>>
    /\ module_aliases = ALIASES
    /\ calls = 1 /\ first_outcome = NoOutcome
    /\ gold_csv = NoTable
    /\ LocalsUnset

\* One call, made as src/app.py makes it (save_output=True), with either
\* value of restrict_multi_to_2021_countries.
Init ==
    /\ \E in \in Inputs : FirstCall(in)
    /\ restrict \in BOOLEAN
    /\ save_output = TRUE
    /\ NormIdle /\ ColsIdle /\ DashIdle

inputs == <<multi_df, y2021_df, geo_df, restrict, save_output>>

\* what no step of run assigns: the module's alias table and the caller's
\* own record of its calls
outside == <<module_aliases, passed, calls, first_outcome>>

\* Step 1
LocateKeyColumns ==
    /\ pc = "start"
    /\ LET lookups == KeyLookups(multi_df, y2021_df, geo_df)
           res == [i \in DOMAIN lookups |-> FindCol(lookups[i].df, lookups[i].key)]
           failed == {i \in DOMAIN lookups : ~res[i].ok}
       IN  IF failed = {}
           THEN /\ found' = [multi_country |-> res[1].col, multi_year |-> res[2].col,
                             y21_country |-> res[3].col, y21_year |-> res[4].col,
                             geo_country |-> res[5].col, y21_region |-> res[6].col]
                /\ pc' = "located"
                /\ error' = error
           ELSE /\ found' = found
                /\ pc' = "raised"
                /\ error' = res[SetMin(failed)].error
    /\ UNCHANGED <<inputs, outside, multi_work, y2021_work, multi_aligned, y2021_aligned,
                   appended, geo_harmonised, merged, gold_csv, norm_vars, cols_vars, dash_vars>>

\* Step 2
RestrictCountries ==
    /\ pc = "located"
    /\ y2021_work' = y2021_df
    /\ multi_work' = IF restrict
                     THEN RestrictToSnapshotCountries(multi_df, y2021_df,
                              found.multi_country, found.y21_country)
                     ELSE multi_df
    /\ pc' = "filtered"
    /\ UNCHANGED <<inputs, outside, found, multi_aligned, y2021_aligned, appended,
                   geo_harmonised, merged, gold_csv, error, norm_vars, cols_vars, dash_vars>>

\* mutant of InjectRegions: the panel's aliases are resolved before the
\* region is injected
InjectRegionsAfterAliases ==
    /\ pc = "filtered"
    /\ multi_work' = InjectRegion(ApplyAliases(multi_work, module_aliases),
                        CountryRegion(y2021_work, found.y21_country,
                                      found.y21_region, found.multi_country),
                        found.multi_country)
    /\ pc' = "injected"
    /\ UNCHANGED <<inputs, outside, found, y2021_work, multi_aligned, y2021_aligned,
                   appended, geo_harmonised, merged, gold_csv, error, norm_vars,
                   cols_vars, dash_vars>>

\* Step 3
InjectRegions ==
    /\ pc = "filtered"
    /\ multi_work' = InjectRegion(multi_work,
                        CountryRegion(y2021_work, found.y21_country,
                                      found.y21_region, found.multi_country),
                        found.multi_country)
    /\ pc' = "injected"
    /\ UNCHANGED <<inputs, outside, found, y2021_work, multi_aligned, y2021_aligned, appended,
                   geo_harmonised, merged, gold_csv, error, norm_vars, cols_vars, dash_vars>>

\* Step 4
ResolveAliases ==
    /\ pc = "injected"
    /\ multi_work' = ApplyAliases(multi_work, module_aliases)
    /\ y2021_work' = ApplyAliases(y2021_work, module_aliases)
    /\ pc' = "aliased"
    /\ UNCHANGED <<inputs, outside, found, multi_aligned, y2021_aligned, appended,
                   geo_harmonised, merged, gold_csv, error, norm_vars, cols_vars, dash_vars>>

\* Step 5
AlignColumns ==
    /\ pc = "aliased"
    /\ LET r == IntersectAndAlign(multi_work, y2021_work)
       IN  IF r.kind = "ok"
           THEN /\ multi_aligned' = r.a /\ y2021_aligned' = r.b
                /\ pc' = "aligned" /\ error' = error
           ELSE /\ UNCHANGED <<multi_aligned, y2021_aligned>>
                /\ pc' = "raised" /\ error' = [kind |-> r.kind, key |-> <<>>]
    /\ UNCHANGED <<inputs, outside, found, multi_work, y2021_work, appended,
                   geo_harmonised, merged, gold_csv, norm_vars, cols_vars, dash_vars>>

\* Step 6: indexing a column the aligned tables lack raises KeyError
AppendTables ==
    /\ pc = "aligned"
    /\ IF HasCol(y2021_aligned, N_country_name) /\ HasCol(y2021_aligned, N_year)
       THEN /\ appended' = AppendWithPrecedence(multi_aligned, y2021_aligned)
            /\ pc' = "appended" /\ error' = error
       ELSE /\ appended' = appended
            /\ pc' = "raised"
            /\ error' = [kind |-> "KeyError",
                         key |-> IF HasCol(y2021_aligned, N_country_name)
                                 THEN N_year ELSE N_country_name]
    /\ UNCHANGED <<inputs, outside, found, multi_work, y2021_work, multi_aligned, y2021_aligned,
                   geo_harmonised, merged, gold_csv, norm_vars, cols_vars, dash_vars>>

\* Step 7: the rename gives a new table, and the assignment of the replaced
\* column writes into that table
HarmoniseGeoNames ==
    /\ pc = "appended"
    /\ geo_harmonised' = HarmoniseGeo(geo_df, found.geo_country)
    /\ geo_df' = AfterWrite("geo_df", geo_df, GeoHarmonisedObject, geo_harmonised')
    /\ pc' = "harmonised"
    /\ UNCHANGED <<multi_df, y2021_df, restrict, save_output, outside, found, multi_work, y2021_work, multi_aligned, y2021_aligned,
                   appended, merged, gold_csv, error, norm_vars, cols_vars, dash_vars>>

\* Step 8
MergeGeolocation ==
    /\ pc = "harmonised"
    /\ merged' = MergeGeo(appended, geo_df, found.geo_country)
    /\ pc' = "merged"
    /\ UNCHANGED <<inputs, outside, found, multi_work, y2021_work, multi_aligned, y2021_aligned,
                   appended, geo_harmonised, gold_csv, error, norm_vars, cols_vars, dash_vars>>

\* Step 9: the CSV is written whatever save_output says, then merged is returned
SaveAndReturn ==
    /\ pc = "merged"
    /\ gold_csv' = merged
    /\ pc' = "returned"
    /\ UNCHANGED <<inputs, outside, found, multi_work, y2021_work, multi_aligned, y2021_aligned,
                   appended, geo_harmonised, merged, error, norm_vars, cols_vars, dash_vars>>

Next ==
    \/ LocateKeyColumns \/ RestrictCountries \/ InjectRegions \/ ResolveAliases
    \/ AlignColumns \/ AppendTables \/ HarmoniseGeoNames \/ MergeGeolocation
    \/ SaveAndReturn

Spec == Init /\ [][Next]_vars

-----------------------------------------------------------------------------
(* SpecTwice: one caller calls run twice on the tables it holds, with the  *)
(* same flags, whatever save_output is                                     *)

MaxSnapRowsTwice == 1
MaxGeoRowsTwice == 1

TwiceInputs ==
    {in \in Inputs : /\ Len(in.y2021.rows) <= MaxSnapRowsTwice
                     /\ Len(in.geo.rows) <= MaxGeoRowsTwice}

InitTwice ==
    /\ \E in \in TwiceInputs : FirstCall(in)
    /\ restrict \in BOOLEAN
    /\ save_output \in BOOLEAN
    /\ NormIdle /\ ColsIdle /\ DashIdle

\* The first call has ended, by return or by an exception; the caller calls
\* run again with the objects it passed before.  Files stay on disk.
CallAgain ==
    /\ calls = 1
    /\ pc \in {"returned", "raised"}
    /\ first_outcome' = [pc |-> pc, merged |-> merged, error |-> error]
    /\ calls' = 2
    /\ pc' = "start" /\ found' = NoCols
    /\ multi_work' = NoTable /\ y2021_work' = NoTable
    /\ multi_aligned' = NoTable /\ y2021_aligned' = NoTable
    /\ appended' = NoTable /\ geo_harmonised' = NoTable /\ merged' = NoTable
    /\ error' = NoError
    /\ UNCHANGED <<inputs, module_aliases, passed, gold_csv, norm_vars, cols_vars, dash_vars>>

NextTwice == Next \/ CallAgain

SpecTwice == InitTwice /\ [][NextTwice]_vars

-----------------------------------------------------------------------------
(* SpecDash: the dashboard's data holder (dash_app/data_access.py) under   *)
(* calls of its setters and of get_gold_df, and pages that edit the tables *)
(* they were handed                                                        *)

\* calls made in one behaviour
MaxDashCalls == 4

\* column labels of the application's tables: with whitespace to strip at
\* the front, at the back, and with none
Label_a_lead == <<" ", "a">>
Label_b_trail == <<"b", " ">>
Label_a == <<"a">>

\* the tables the application holds: labels that need stripping, labels
\* that become equal once stripped, and a label that needs none
DashTables ==
    { Table(<<Label_a_lead, Label_b_trail>>, << <<"1", "2">> >>),
      Table(<<Label_a_lead, Label_a>>, << <<"3", "4">> >>),
      Table(<<Label_a>>, << <<"5">> >>) }

\* the DataFrame objects the application holds
AppFrames == {1, 2}

\* the callables given to set_data_provider: one returning a table of the
\* application, one returning None
Funcs == {Provider("func", o) : o \in AppFrames \cup {NoFrame}}

\* the object a call of the provider returns
CallProvider(provider) == provider.frame

NoProviderError == "RuntimeError: No data provider set."
NoneReturnedError == "RuntimeError: Injected data provider returned None."
\* what Python raises for None.copy()
NoneCopyError == "AttributeError: 'NoneType' object has no attribute 'copy'"

\* an entry of the log of calls
Call(op, provider, frame, outcome) ==
    [op |-> op, provider |-> provider, frame |-> frame, outcome |-> outcome]

\* mutant of Copy: the object itself is handed on
CopyShares(fr, o) == [frames |-> fr, frame |-> o]

\* DataFrame.copy(): a new object with the same labels and cells
Copy(fr, o) == [frames |-> Append(fr, fr[o]), frame |-> Len(fr) + 1]

\* [c.strip() for c in df.columns]
StripLabels(cols) == [i \in DOMAIN cols |-> StripSpace(cols[i])]

\* mutant of Installed: a provider once set is kept
InstalledKeepsFirst(current, func) == IF current = NoProvider THEN func ELSE current

\* set_data_provider: _DATA_PROVIDER = func
Installed(current, func) == func

\* get_gold_df with the provider and the objects in memory: the outcome,
\* the objects in memory afterwards and the object returned
GetGoldDfResult(provider, fr) ==
    IF provider = NoProvider
    THEN [outcome |-> NoProviderError, frames |-> fr, frame |-> NoFrame]
    ELSE LET res == CallProvider(provider)
         IN  IF res = NoFrame
             \* line 18: the method call on None raises before line 20 is reached
             THEN [outcome |-> NoneCopyError, frames |-> fr, frame |-> NoFrame]
             ELSE LET df == Copy(fr, res)
                  IN  IF df.frame = NoFrame
                      THEN [outcome |-> NoneReturnedError, frames |-> df.frames,
                            frame |-> NoFrame]
                      ELSE LET df2 == Copy(df.frames, df.frame)
                           IN  [outcome |-> "returned",
                                frames |-> [df2.frames EXCEPT ![df2.frame].cols =
                                                StripLabels(@)],
                                frame |-> df2.frame]

\* what a page does to a table it was handed: it overwrites the cells of
\* the first row and relabels the first column
EditedLabel == <<"x">>
EditInPlace(t) ==
    Table([t.cols EXCEPT ![1] = EditedLabel],
          [t.rows EXCEPT ![1] = [i \in DOMAIN t.rows[1] |-> "edited"]])

InitDash ==
    /\ DATA_PROVIDER = NoProvider
    /\ frames \in [1..Cardinality(AppFrames) -> DashTables]
    /\ page_frames = <<>>
    /\ dash_log = <<>>
    /\ RunIdle /\ NormIdle /\ ColsIdle

Serving == Len(dash_log) < MaxDashCalls /\ frames # <<>>

SetGoldDf ==
    /\ Serving
    /\ \E df \in AppFrames :
          LET func == Provider("lambda: df", df)
          IN  /\ DATA_PROVIDER' = Installed(DATA_PROVIDER, func)
              /\ dash_log' = Append(dash_log,
                                    Call("set_gold_df", func, NoFrame, "returned"))
    /\ UNCHANGED <<frames, page_frames, run_vars, norm_vars, cols_vars>>

SetDataProvider ==
    /\ Serving
    /\ \E func \in Funcs :
          /\ DATA_PROVIDER' = Installed(DATA_PROVIDER, func)
          /\ dash_log' = Append(dash_log,
                                Call("set_data_provider", func, NoFrame, "returned"))
    /\ UNCHANGED <<frames, page_frames, run_vars, norm_vars, cols_vars>>

GetGoldDf ==
    /\ Serving
    /\ LET res == GetGoldDfResult(DATA_PROVIDER, frames)
       IN  /\ frames' = res.frames
           /\ page_frames' = IF res.outcome = "returned"
                             THEN Append(page_frames, res.frame) ELSE page_frames
           /\ dash_log' = Append(dash_log,
                                 Call("get_gold_df", DATA_PROVIDER, res.frame, res.outcome))
    /\ UNCHANGED <<DATA_PROVIDER, run_vars, norm_vars, cols_vars>>

\* a page edits, in place, a table that get_gold_df returned to it
EditReturned ==
    /\ Serving
    /\ \E i \in DOMAIN page_frames :
          /\ frames' = [frames EXCEPT ![page_frames[i]] = EditInPlace(@)]
          /\ dash_log' = Append(dash_log,
                                Call("edit", NoProvider, page_frames[i], "returned"))
    /\ UNCHANGED <<DATA_PROVIDER, page_frames, run_vars, norm_vars, cols_vars>>

NextDash == SetGoldDf \/ SetDataProvider \/ GetGoldDf \/ EditReturned

SpecDash == InitDash /\ [][NextDash]_vars

-----------------------------------------------------------------------------
(* Vocabulary of the claims *)

\* the (country_name, year) key of a row of a table that has both columns
KeyOf(df, r) == <<r[ColPos(df, N_country_name)], r[ColPos(df, N_year)]>>

KeysOf(df) == {KeyOf(df, df.rows[i]) : i \in DOMAIN df.rows}

RowsWithKey(df, k) == {i \in DOMAIN df.rows : KeyOf(df, df.rows[i]) = k}

UniqueKeys(df) ==
    \A i, j \in DOMAIN df.rows : KeyOf(df, df.rows[i]) = KeyOf(df, df.rows[j]) => i = j

\* step 6 has run
AfterAppend == pc \in {"appended", "harmonised", "merged", "returned"}

\* step 8 has run
AfterMerge == pc \in {"merged", "returned"}

\* the geolocation table's country labels, as the input spells them
GeoLabels ==
    {geo_df.rows[i][ColPos(geo_df, found.geo_country)] : i \in DOMAIN geo_df.rows}

\* the cells of a row of merged that come from the appended table
HappinessPart(m) == SubSeq(m, 1, Len(appended.cols))

-----------------------------------------------------------------------------
(* Claims on SilverToGold.run (Spec) *)

\* C1 (append precedence): once step 6 has run, every (country_name, year)
\* key that occurs in both aligned tables has exactly one row in the appended
\* table; the appended table has the aligned tables' columns, and that row is
\* a row of the aligned snapshot with that key and is no row of the aligned
\* panel.
C1_AppendPrecedence ==
    AfterAppend =>
        /\ appended.cols = y2021_aligned.cols
        /\ \A k \in KeysOf(multi_aligned) \cap KeysOf(y2021_aligned) :
              /\ Cardinality(RowsWithKey(appended, k)) = 1
              /\ \A i \in RowsWithKey(appended, k) :
                    /\ \E j \in RowsWithKey(y2021_aligned, k) :
                          appended.rows[i] = y2021_aligned.rows[j]
                    /\ appended.rows[i] \notin Range(multi_aligned.rows)

\* C1 witness: step 6 has just run on aligned tables that share a key
C1_Witness ==
    /\ pc = "appended"
    /\ KeysOf(multi_aligned) \cap KeysOf(y2021_aligned) # {}

\* C2 (append uniqueness and completeness): once step 6 has run, no two rows
\* of the appended table have the same (country_name, year), and its keys are
\* exactly the keys of the aligned panel together with those of the aligned
\* snapshot.
C2_AppendUniqueComplete ==
    AfterAppend =>
        /\ UniqueKeys(appended)
        /\ KeysOf(appended) = KeysOf(multi_aligned) \cup KeysOf(y2021_aligned)

\* C2 witness: step 6 has just run on a panel that repeats a key, and on a
\* panel and a snapshot that each hold a key the other lacks
C2_Witness ==
    /\ pc = "appended"
    /\ ~UniqueKeys(multi_aligned)
    /\ KeysOf(multi_aligned) \ KeysOf(y2021_aligned) # {}
    /\ KeysOf(y2021_aligned) \ KeysOf(multi_aligned) # {}

\* C3 (gold uniqueness), as claimed: the table run returns has one row per
\* (country_name, year), whatever the geolocation table.
C3_GoldUnique == pc = "returned" => UniqueKeys(merged)

\* C4 (geo merge keeps the row count), as claimed: the merge of step 8 returns
\* as many rows as the appended table has, whatever the geolocation table.
C4_GeoMergeKeepsRowCount == AfterMerge => Len(merged.rows) = Len(appended.rows)

\* C5 (harmonisation takes effect in the join), as claimed: in the table run
\* returns, a happiness row whose country_name is the dictionary's target for
\* the label of a geolocation row carries that geolocation row's latitude
\* and longitude.
C5_HarmonisedJoin ==
    pc = "returned" =>
        \A i \in DOMAIN appended.rows : \A g \in DOMAIN geo_df.rows :
            LET label == geo_df.rows[g][ColPos(geo_df, found.geo_country)]
                country == appended.rows[i][ColPos(appended, N_country_name)]
            IN  (label \in DOMAIN geo_to_happy /\ geo_to_happy[label] = country) =>
                    \E m \in DOMAIN merged.rows :
                        /\ HappinessPart(merged.rows[m]) = appended.rows[i]
                        /\ merged.rows[m][ColPos(merged, N_latitude)]
                              = geo_df.rows[g][ColPos(geo_df, N_latitude)]
                        /\ merged.rows[m][ColPos(merged, N_longitude)]
                              = geo_df.rows[g][ColPos(geo_df, N_longitude)]

\* C6 (missing geolocation is a soft failure): once step 8 has run, run has
\* raised nothing, and every row of the appended table whose country_name is
\* the label of no geolocation row is a row of the merged table, with null
\* latitude and longitude; and whenever run raises, it does so before the
\* append and the merge.
C6_MissingGeoIsSoft ==
    /\ AfterMerge =>
          /\ error = NoError
          /\ \A i \in DOMAIN appended.rows :
                appended.rows[i][ColPos(appended, N_country_name)] \notin GeoLabels =>
                    \E m \in DOMAIN merged.rows :
                        /\ HappinessPart(merged.rows[m]) = appended.rows[i]
                        /\ merged.rows[m][ColPos(merged, N_latitude)] = Null
                        /\ merged.rows[m][ColPos(merged, N_longitude)] = Null
    /\ pc = "raised" => appended = NoTable /\ merged = NoTable

\* C6 witness: run has returned a table although the geolocation table, which
\* has rows, has none for the country of some appended row
C6_Witness ==
    /\ pc = "returned"
    /\ geo_df.rows # <<>>
    /\ \E i \in DOMAIN appended.rows :
          appended.rows[i][ColPos(appended, N_country_name)] \notin GeoLabels

-----------------------------------------------------------------------------
(* Claims on the Column Aligner and the Alias Resolver (SpecCols) *)

SharedKeys(a, b) ==
    DOMAIN BuildNormalisedMap(a.cols) \cap DOMAIN BuildNormalisedMap(b.cols)

\* In SpecCols the aligner's arguments A and B are alias_once and alias_b, the
\* two drawn tables after alias resolution.

\* C7 (alignment completeness), as claimed: _intersect_and_align(A, B)
\* returns two tables with one and the same non-empty column list whenever A
\* and B share a normalised key, and raises the no-shared-columns error
\* exactly when they share none.
C7_AlignmentComplete ==
    cpc \in {"aligned_ab", "done", "found"} =>
        IF SharedKeys(alias_once, alias_b) # {}
        THEN /\ align_ab.kind = "ok"
             /\ align_ab.a.cols = align_ab.b.cols
             /\ align_ab.a.cols # <<>>
        ELSE align_ab.kind = "ValueError: No shared columns"

\* C8 (alignment symmetry), as claimed: for A and B that share a normalised
\* key, _intersect_and_align(A, B) and _intersect_and_align(B, A) both produce
\* the list of the shared keys in sorted order as their output columns.
C8_AlignmentSymmetric ==
    (cpc \in {"done", "found"} /\ SharedKeys(alias_once, alias_b) # {}) =>
        /\ align_ab.kind = "ok" /\ align_ba.kind = "ok"
        /\ align_ab.a.cols = SortNames(SharedKeys(alias_once, alias_b))
        /\ align_ba.a.cols = align_ab.a.cols
        /\ align_ba.b.cols = align_ab.b.cols

\* C10 (alias idempotence), as claimed: _apply_aliases applied to its own
\* result leaves the column list as the first application made it.
C10_AliasIdempotent ==
    cpc \in {"aliased_twice", "aliased_b", "aligned_ab", "done", "found"} =>
        alias_twice.cols = alias_once.cols

-----------------------------------------------------------------------------
(* Claims on the Column Normalizer (SpecNorm) *)

\* C9 (normalisation idempotence): _snake_normalise applied to its own
\* result returns that result.
C9_NormalisationIdempotent == npc = "twice" => norm_twice = norm_once

\* C9 witness: a raw name that normalisation changes, into a non-empty key,
\* has been normalised twice
C9_Witness ==
    /\ npc = "twice"
    /\ norm_once # <<>>
    /\ norm_once # raw_name

\* the characters a normalised key may hold
KeyChars == Range(LowerChars) \cup Range(DigitChars) \cup {"_"}

-----------------------------------------------------------------------------
(* More claims on the Alias Resolver and the Key Column Locator (SpecCols) *)

\* out is the table in with some columns renamed, and a renamed column is
\* one whose normalised key is an alias key and whose name was not the
\* canonical target, which is its new name; with no such column, out is in
OnlyRenames(in, out) ==
    /\ Len(out.cols) = Len(in.cols)
    /\ out.rows = in.rows
    /\ \A i \in DOMAIN in.cols :
          out.cols[i] # in.cols[i] =>
              LET key == SnakeNormalise(in.cols[i])
              IN  /\ key \in DOMAIN ALIASES
                  /\ ALIASES[key] # in.cols[i]
                  /\ out.cols[i] = ALIASES[key]
    /\ (\A i \in DOMAIN in.cols :
           LET key == SnakeNormalise(in.cols[i])
           IN  key \in DOMAIN ALIASES => ALIASES[key] = in.cols[i]) => out = in

\* C11 (the Alias Resolver only renames): every call of _apply_aliases made
\* (on the first table, on its own result, on the second table) returns its
\* argument with the same number of columns in the same positions and the
\* same rows; a column has a new name only if its key is an alias key and its
\* name differed from the canonical target, which it now carries; and the
\* argument is returned as it was when no alias applies.
C11_AliasOnlyRenames ==
    /\ cpc \notin {"idle", "start"} => OnlyRenames(tab_a, alias_once)
    /\ cpc \notin {"idle", "start", "aliased_a"} => OnlyRenames(alias_once, alias_twice)
    /\ cpc \in {"aliased_b", "aligned_ab", "done", "found"} => OnlyRenames(tab_b, alias_b)

\* C11 witness: _apply_aliases has returned a table in which it renamed one
\* column and kept the name of another
C11_Witness ==
    /\ cpc = "aliased_a"
    /\ \E i, j \in DOMAIN tab_a.cols :
          /\ alias_once.cols[i] # tab_a.cols[i]
          /\ alias_once.cols[j] = tab_a.cols[j]

\* positions of the columns of df that normalise to the key
ColumnsWithKey(df, key) == {i \in DOMAIN df.cols : NormalisedKey(df.cols[i]) = key}

\* C12 (Key Column Locator): _find_col(df, target) returns the name of the
\* first column of df, in column order, that normalises to target, and
\* raises the KeyError carrying target when no column of df does.
C12_FindCol ==
    cpc = "found" =>
        IF ColumnsWithKey(tab_a, find_target) # {}
        THEN /\ find_res.ok
             /\ find_res.col = tab_a.cols[SetMin(ColumnsWithKey(tab_a, find_target))]
             /\ find_res.error = NoError
        ELSE /\ ~find_res.ok
             /\ find_res.error = [kind |-> "KeyError", key |-> find_target]

\* C12 witness: _find_col has been called on a table with two columns that
\* normalise to the target
C12_Witness ==
    /\ cpc = "found"
    /\ Cardinality(ColumnsWithKey(tab_a, find_target)) = 2

-----------------------------------------------------------------------------
(* More claims on SilverToGold.run (Spec) *)

\* the table has no column that normalises to the key
Lacks(df, key) == ColumnsWithKey(df, key) = {}

\* the required keys that a table of the call lacks
MissingKeys ==
    {k \in {N_country_name, N_year} : Lacks(multi_df, k) \/ Lacks(y2021_df, k)}
    \cup {k \in {N_regional_indicator} : Lacks(y2021_df, k)}
    \cup {k \in {N_country_name} : Lacks(geo_df, k)}

\* C13 (a missing required column is fatal): when the panel or the snapshot
\* lacks a country_name or year column, or the snapshot a regional_indicator
\* column, or the geolocation table a country_name column, run raises the
\* KeyError that names a key that is missing, as soon as it takes its first
\* step, and neither a returned table nor a gold CSV exists.
C13_MissingColumnFatal ==
    (MissingKeys # {} /\ pc # "start") =>
        /\ pc = "raised"
        /\ error.kind = "KeyError"
        /\ error.key \in MissingKeys
        /\ merged = NoTable
        /\ gold_csv = NoTable

\* C13 witness: run has raised for a geolocation table without a country
\* column, given a panel and a snapshot that have all their columns
C13_Witness ==
    /\ pc = "raised"
    /\ Lacks(geo_df, N_country_name)
    /\ ~Lacks(multi_df, N_country_name) /\ ~Lacks(y2021_df, N_regional_indicator)
    /\ geo_df.rows # <<>>

\* position of the first column of df that normalises to the key
KeyColumn(df, key) == SetMin(ColumnsWithKey(df, key))

\* the values of the snapshot's country column, as strings
SnapshotCountries ==
    {AsStr(y2021_df.rows[i][KeyColumn(y2021_df, N_country_name)]) :
        i \in DOMAIN y2021_df.rows}

\* the input panel's rows whose country is in the snapshot, in their order
PanelRowsInScope ==
    LET InScope(r) == AsStr(r[KeyColumn(multi_df, N_country_name)]) \in SnapshotCountries
    IN  SelectSeq(multi_df.rows, InScope)

\* C16 (Country-Scope Filter): after step 2 with the restrict flag set, the
\* working panel holds exactly the input panel's rows whose country, as a
\* string, occurs in the snapshot's country column, and every row of the
\* table run returns has such a country; with the flag clear the working
\* panel is the input panel.
C16_CountryScopeFilter ==
    /\ pc = "filtered" =>
          IF restrict
          THEN multi_work = [multi_df EXCEPT !.rows = PanelRowsInScope]
          ELSE multi_work = multi_df
    /\ (pc = "returned" /\ restrict) =>
          \A m \in DOMAIN merged.rows :
              AsStr(merged.rows[m][ColPos(merged, N_country_name)]) \in SnapshotCountries

\* C16 witness: step 2 has just filtered a panel, dropping a row and keeping
\* another
C16_Witness ==
    /\ pc = "filtered" /\ restrict
    /\ multi_work.rows # <<>>
    /\ Len(multi_work.rows) < Len(multi_df.rows)

\* the panel's rows that enter step 3
PanelRowsAfterFilter == IF restrict THEN PanelRowsInScope ELSE multi_df.rows

\* the regions the snapshot gives for a country
SnapshotRegions(country) ==
    {y2021_df.rows[i][KeyColumn(y2021_df, N_regional_indicator)] :
        i \in {j \in DOMAIN y2021_df.rows :
                  y2021_df.rows[j][KeyColumn(y2021_df, N_country_name)] = country}}

\* C17 (region injection), as claimed: after step 3 the working panel has a
\* column regional_indicator; each of its rows carries there a region the
\* snapshot gives for the row's country, or null when the snapshot has no
\* such country; and every panel row that entered step 3 is still there.
C17_RegionInjected ==
    pc = "injected" =>
        /\ Cardinality(ColPositions(multi_work, N_regional_indicator)) = 1
        /\ \A i \in DOMAIN multi_work.rows :
              LET country == multi_work.rows[i][KeyColumn(multi_work, N_country_name)]
                  region == multi_work.rows[i][ColPos(multi_work, N_regional_indicator)]
              IN  IF SnapshotRegions(country) # {}
                  THEN region \in SnapshotRegions(country)
                  ELSE region = Null
        /\ \A j \in DOMAIN PanelRowsAfterFilter :
              \E i \in DOMAIN multi_work.rows :
                  \A c \in DOMAIN multi_df.cols :
                      multi_df.cols[c] # N_regional_indicator =>
                          multi_work.rows[i][ColPos(multi_work, multi_df.cols[c])]
                              = PanelRowsAfterFilter[j][c]

\* C18 (output contract), as claimed: the table run returns has columns
\* country_name, year, regional_indicator, latitude and longitude.
C18_OutputContract ==
    pc = "returned" =>
        \A name \in {N_country_name, N_year, N_regional_indicator,
                     N_latitude, N_longitude} : HasCol(merged, name)

\* C19 (whole-row precedence): every row of the appended table is, cell for
\* cell, one row of the aligned panel or one row of the aligned snapshot.
C19_WholeRows ==
    AfterAppend =>
        \A i \in DOMAIN appended.rows :
            appended.rows[i] \in Range(multi_aligned.rows) \cup Range(y2021_aligned.rows)

\* C19 witness: step 6 has just run on a panel and a snapshot that hold two
\* rows each for one key, with different regions
C19_Witness ==
    /\ pc = "appended"
    /\ \E k \in KeysOf(multi_aligned) \cap KeysOf(y2021_aligned) :
          /\ Cardinality(RowsWithKey(multi_aligned, k)) > 1
          /\ Cardinality(RowsWithKey(y2021_aligned, k)) > 1

\* C21 (only two fatal outcomes), as claimed: when run raises, the error is
\* the missing-column KeyError or the no-shared-columns ValueError.
C21_TwoFatalErrors ==
    pc = "raised" => error.kind \in {"KeyError", "ValueError: No shared columns"}

\* labels of df that begin with the label regional_indicator and go on
SuffixedRegionLabels(df) ==
    {c \in Range(df.cols) :
        /\ Len(c) > Len(N_regional_indicator)
        /\ SubSeq(c, 1, Len(N_regional_indicator)) = N_regional_indicator}

\* C23 (a pre-existing region column is removed), as claimed: when the input
\* panel has a column regional_indicator, the panel after step 3 has exactly
\* one column of that name and none with a suffix.
C23_OwnRegionDropped ==
    (pc = "injected" /\ HasCol(multi_df, N_regional_indicator)) =>
        /\ Cardinality(ColPositions(multi_work, N_regional_indicator)) = 1
        /\ SuffixedRegionLabels(multi_work) = {}

\* step 5 has returned
AfterAlign == pc = "aligned" \/ AfterAppend

\* C27 (the alignment error is unreachable inside run): run never raises the
\* no-shared-columns error; whenever step 5 has returned, both aligned
\* tables have a column named country_name and a column named year; and
\* step 6, which indexes by those names, raises no KeyError: a KeyError
\* comes from step 1 alone, before any key column is recorded.
C27_AlignmentErrorUnreachable ==
    /\ error.kind # "ValueError: No shared columns"
    /\ AfterAlign =>
          \A name \in {N_country_name, N_year} :
              /\ Cardinality(ColPositions(multi_aligned, name)) = 1
              /\ Cardinality(ColPositions(y2021_aligned, name)) = 1
    /\ error.kind = "KeyError" => found = NoCols

\* C27 witness: step 5 has returned tables for a panel and a snapshot that
\* spell their country column "Country name"
C27_Witness ==
    /\ pc = "aligned"
    /\ found.multi_country = Raw_Country_name
    /\ found.y21_country = Raw_Country_name

\* a column that records which table a row came from
OriginLabel == <<"o", "r", "i", "g", "i", "n">>

WithOrigin(df, origin) == WithColumn(df, OriginLabel, [i \in DOMAIN df.rows |-> origin])

\* the sorted union of step 6, computed on the aligned tables with their
\* rows marked by origin (the mark is no sort key)
SortedWithOrigin ==
    SortedUnion(WithOrigin(multi_aligned, "panel"), WithOrigin(y2021_aligned, "snapshot"))

\* positions in the sorted union of the rows of a key that came from a table
SortedRows(sorted, k, origin) ==
    {p \in DOMAIN sorted.rows :
        /\ KeyOf(sorted, sorted.rows[p]) = k
        /\ sorted.rows[p][ColPos(sorted, OriginLabel)] = origin}

FlagAt(sorted, p) == sorted.rows[p][ColPos(sorted, N_is_2021_row)]

\* C22 (flag ordering), as claimed: in the sorted union, for every key that
\* both tables contribute, the panel's rows carry flag 0, the snapshot's
\* rows carry flag 1, and the panel's rows come before the snapshot's.
C22_FlagOrderAsClaimed ==
    pc = "appended" =>
        LET sorted == SortedWithOrigin
        IN  \A k \in KeysOf(multi_aligned) \cap KeysOf(y2021_aligned) :
                LET panel == SortedRows(sorted, k, "panel")
                    snapshot == SortedRows(sorted, k, "snapshot")
                IN  /\ \A p \in panel : FlagAt(sorted, p) = 0
                    /\ \A q \in snapshot : FlagAt(sorted, q) = 1
                    /\ \A p \in panel : \A q \in snapshot : p < q

\* C22, amended: the flag is 1 on every row whose key the snapshot has, the
\* panel's rows of such a key included, and 0 on every other row; for a key
\* that both tables contribute the panel's rows still come before the
\* snapshot's, because the sort keeps the order of rows that tie and the
\* union puts the panel first; so the last row of the key, which is the one
\* kept, is a snapshot row.
C22_FlagOrder ==
    pc = "appended" =>
        LET sorted == SortedWithOrigin
            y2021_keys == KeysOf(y2021_aligned)
        IN  /\ \A p \in DOMAIN sorted.rows :
                  FlagAt(sorted, p) = IF KeyOf(sorted, sorted.rows[p]) \in y2021_keys
                                      THEN 1 ELSE 0
            /\ \A k \in KeysOf(multi_aligned) \cap y2021_keys :
                  LET panel == SortedRows(sorted, k, "panel")
                      snapshot == SortedRows(sorted, k, "snapshot")
                  IN  /\ \A p \in panel : \A q \in snapshot : p < q
                      /\ SetMax(panel \cup snapshot) \in snapshot

\* C22 witness: step 6 has just run on tables that share a key and a panel
\* that also has a key of its own
C22_Witness ==
    /\ pc = "appended"
    /\ KeysOf(multi_aligned) \cap KeysOf(y2021_aligned) # {}
    /\ KeysOf(multi_aligned) \ KeysOf(y2021_aligned) # {}

\* the stages of a successful run, in order
StageOrder == <<"start", "located", "filtered", "injected", "aliased", "aligned",
                "appended", "harmonised", "merged", "returned">>

\* what a step of run from pc to pc' may be
StageStep ==
    /\ \/ pc' = "raised"
       \/ \E i \in 1..(Len(StageOrder) - 1) : pc = StageOrder[i] /\ pc' = StageOrder[i+1]
    \* the filter works on the raw panel, and only when its flag is set
    /\ pc' = "filtered" =>
          /\ multi_work'.cols = multi_df.cols
          /\ ~restrict => multi_work' = multi_df
          /\ y2021_work' = y2021_df
    \* the region is injected into the filtered panel before any alias is
    \* resolved: its other columns still carry their raw names
    /\ pc' = "injected" =>
          /\ Range(multi_df.cols) \ {N_regional_indicator} \subseteq Range(multi_work'.cols)
          /\ y2021_work' = y2021_df
    \* aliases are resolved on both tables, before the alignment
    /\ pc' = "aliased" =>
          /\ OnlyRenames(multi_work, multi_work')
          /\ OnlyRenames(y2021_work, y2021_work')
          /\ multi_aligned' = NoTable /\ y2021_aligned' = NoTable
    \* the alignment reads the aliased tables, before the append
    /\ pc' = "aligned" =>
          /\ multi_aligned'.cols = y2021_aligned'.cols
          /\ Len(multi_aligned'.rows) = Len(multi_work.rows)
          /\ Len(y2021_aligned'.rows) = Len(y2021_work.rows)
          /\ appended' = NoTable
    \* the append reads the aligned tables, before any geolocation step
    /\ pc' = "appended" =>
          /\ appended'.cols = multi_aligned.cols
          /\ geo_harmonised' = NoTable /\ merged' = NoTable
    \* the merge is the last transformation: what is returned is its result
    /\ pc' = "merged" => HappinessPart(merged'.cols) = appended.cols
    /\ pc' = "returned" => merged' = merged /\ gold_csv' = merged

\* C24 (stage ordering): every step of run moves to the next stage of
\* locate, filter, inject, alias, align, append, harmonise, merge, return (or
\* raises), so no stage runs twice or is skipped; the filter and the region
\* injection work on the panel under its raw column names, the filter only
\* when its flag is set; aliases are resolved on both tables before the
\* alignment, the alignment precedes the append, and the table returned is
\* the result of the geolocation merge.
C24_StageOrdering == [][StageStep]_vars

\* C24 witness: a run with the filter flag set has returned, for a panel that
\* had a row out of scope and a column to rename
C24_Witness ==
    /\ pc = "returned" /\ restrict
    /\ Len(PanelRowsInScope) < Len(multi_df.rows)
    /\ HasCol(multi_df, Raw_Life_Ladder)

-----------------------------------------------------------------------------
(* Claims on _build_normalised_map (SpecCols) *)

\* the positions of map_columns whose name normalises to key
PositionsOfKey(key) ==
    {i \in DOMAIN map_columns : SnakeNormalise(map_columns[i]) = key}

\* C25 (first-wins reverse lookup): the map built from an ordered collection
\* of raw names has exactly the normalised keys of those names as its keys,
\* and maps each key to the earliest name of the collection that normalises to
\* it; a later name with the same key does not replace it.
C25_FirstWinsMap ==
    cpc = "mapped" =>
        /\ DOMAIN built_map = {SnakeNormalise(map_columns[i]) : i \in DOMAIN map_columns}
        /\ \A key \in DOMAIN built_map :
               built_map[key] = map_columns[SetMin(PositionsOfKey(key))]

\* C25 witness: the map was built from a collection in which two different
\* raw names have the same key, and the key maps to the first of them
C25_Witness ==
    /\ cpc = "mapped"
    /\ \E i, j \in DOMAIN map_columns :
          /\ i < j
          /\ map_columns[i] # map_columns[j]
          /\ SnakeNormalise(map_columns[i]) = SnakeNormalise(map_columns[j])
          /\ \A h \in 1..(i-1) :
                 SnakeNormalise(map_columns[h]) # SnakeNormalise(map_columns[i])
          /\ built_map[SnakeNormalise(map_columns[i])] = map_columns[i]

-----------------------------------------------------------------------------
(* Claims on two calls of SilverToGold.run (SpecTwice) *)

\* the second call has ended
SecondCallEnded == calls = 2 /\ pc \in {"returned", "raised"}

C15_NoFileIO == gold_csv = NoTable

\* C20 (no shared mutable state): at every step of a first and of a second
\* call, on runs that return and on runs that raise, the three tables the
\* caller passed are as they were before the first call, and the module's
\* alias table is the ALIASES it was loaded with.
C20_InputsUnchanged ==
    /\ <<multi_df, y2021_df, geo_df>> = passed
    /\ module_aliases = ALIASES

\* C20 witness: a second call has run step 7, which has replaced a country
\* name in its own copy of the geolocation table
C20_Witness ==
    /\ calls = 2 /\ pc = "harmonised"
    /\ geo_harmonised.rows # geo_df.rows

-----------------------------------------------------------------------------
(* Claims on the dashboard's data holder (SpecDash) *)

IsSetter(call) == call.op \in {"set_gold_df", "set_data_provider"}

\* the positions of the setter calls made before call k
SettersBefore(k) == {j \in 1..(k-1) : IsSetter(dash_log[j])}

\* the table a get returns for the application's table t
StrippedCopy(t) == Table(StripLabels(t.cols), t.rows)

\* C28 (unset state): a call of get_gold_df made before any call of
\* set_gold_df or set_data_provider raises RuntimeError "No data provider
\* set."; a call of get_gold_df made after a setter call does not raise that
\* error, and the provider it reads is the one given to the most recent
\* setter call.
C28_UnsetState ==
    \A k \in DOMAIN dash_log :
        dash_log[k].op = "get_gold_df" =>
            IF SettersBefore(k) = {}
            THEN dash_log[k].outcome = NoProviderError
            ELSE /\ dash_log[k].outcome # NoProviderError
                 /\ dash_log[k].provider = dash_log[SetMax(SettersBefore(k))].provider

\* C28 witness: get_gold_df was called before any setter, and again after
\* two setter calls that gave providers of different tables
C28_Witness ==
    \E g1, s1, s2, g2 \in DOMAIN dash_log :
        /\ g1 < s1 /\ s1 < s2 /\ s2 < g2
        /\ dash_log[g1].op = "get_gold_df" /\ dash_log[g1].outcome = NoProviderError
        /\ IsSetter(dash_log[s1]) /\ IsSetter(dash_log[s2])
        /\ dash_log[s1].provider.frame \in AppFrames
        /\ dash_log[s2].provider.frame \in AppFrames
        /\ frames[dash_log[s1].provider.frame] # frames[dash_log[s2].provider.frame]
        /\ dash_log[g2].op = "get_gold_df" /\ dash_log[g2].outcome = "returned"
        /\ frames[dash_log[g2].frame] = StrippedCopy(frames[dash_log[s2].provider.frame])

\* C29 (None provider), as claimed: a call of get_gold_df whose provider
\* returns None raises RuntimeError "Injected data provider returned None."
C29_NoneProviderRuntimeError ==
    \A k \in DOMAIN dash_log :
        (/\ dash_log[k].op = "get_gold_df"
         /\ dash_log[k].provider # NoProvider
         /\ CallProvider(dash_log[k].provider) = NoFrame)
        => dash_log[k].outcome = NoneReturnedError

\* what a step may do to the tables in memory while the provider is the one
\* set_gold_df(df) installed
SnapshotStep ==
    DATA_PROVIDER.kind = "lambda: df" =>
        LET df == DATA_PROVIDER.frame
            call == dash_log'[Len(dash_log')]
        IN  \* df and every table handed out keep their labels and cells,
            \* but for the table a page edits
            /\ \A o \in DOMAIN frames :
                   frames'[o] # frames[o] =>
                       /\ call.op = "edit" /\ call.frame = o
                       /\ o # df
            \* a get returns a new object: the copy of df with stripped labels
            /\ call.op = "get_gold_df" =>
                   /\ call.outcome = "returned"
                   /\ call.frame \notin DOMAIN frames
                   /\ frames'[call.frame] = StrippedCopy(frames[df])

\* C30 (read-only snapshot): after set_gold_df(df), every call of
\* get_gold_df returns a new table that is a copy of df with each column
\* label stripped of surrounding whitespace, and an edit of a returned table
\* changes neither df nor any other table handed out, before or after it.
C30_ReadOnlySnapshot == [][SnapshotStep]_vars

\* C30 witness: after set_gold_df(df) for a df with labels to strip, a page
\* edited the table it got, and a later get returned the stripped copy of df
C30_Witness ==
    /\ Len(dash_log) = 4
    /\ dash_log[1].op = "set_gold_df"
    /\ dash_log[2].op = "get_gold_df"
    /\ dash_log[3].op = "edit" /\ dash_log[3].frame = dash_log[2].frame
    /\ dash_log[4].op = "get_gold_df" /\ dash_log[4].outcome = "returned"
    /\ frames[dash_log[4].frame] = StrippedCopy(frames[dash_log[1].provider.frame])
    /\ frames[dash_log[4].frame] # frames[dash_log[1].provider.frame]
    /\ frames[dash_log[2].frame] # frames[dash_log[4].frame]

=============================================================================
